---------------------------- MODULE Spec2Model ----------------------------
(***************************************************************************)
(* Model of the in-memory Spotify token cache of                           *)
(* src/middleware/spotifyAuth.js: the module-level tokenCache object, the  *)
(* exported operations initializeTokenCache and updateTokens, and the      *)
(* request path spotifyAuthMiddleware -> getValidAccessToken ->            *)
(* refreshAccessToken with its shared refresh promise; and of the parts of *)
(* src/index.js around it: GET /callback, the sticky notes of both         *)
(* servers, refreshStoredAccessToken and connectToDatabase.                *)
(*                                                                         *)
(* Node runs the module on one thread: a function body runs without        *)
(* interruption up to its next await on I/O.  Each action below is one     *)
(* such run-to-completion piece.  Promise continuations that are already   *)
(* runnable (microtasks) run before the event loop takes the next request, *)
(* timer or I/O completion, so they belong to the action that made them    *)
(* runnable.                                                               *)
(*                                                                         *)
(* Times are milliseconds, as Date.now() gives them.                       *)
(***************************************************************************)
EXTENDS Integers, Sequences, FiniteSets, TLC

(***************************************************************************)
(* The bound of the model: how many events reach the module from outside  *)
(* (requests arriving at the middleware or at a route, calls of the        *)
(* exported and helper functions, steps of the clock).  What the module    *)
(* does in                                                                 *)
(* answer, and what its token endpoint and its database do, is not         *)
(* bounded further.                                                        *)
(***************************************************************************)
MaxEvents == 4
\* The bound of the clock: the second readings of Date.now() that are tried
\* are those up to this many milliseconds past the first.
MaxClockSkew == 2

(***************************************************************************)
(* Program constants and JavaScript values.                                *)
(***************************************************************************)
Buffer == 60000
MsPerSecond == 1000

Null == "<null>"
Undefined == "<undefined>"
NoTime == -1
NoPromise == 0
\* NaN: what arithmetic on a missing (undefined) number gives.
NaN == -2

\* JavaScript truthiness of a string-or-null value and of a number-or-null value.
Truthy(x) == x \notin {Null, Undefined, ""}
TruthyNum(n) == n /= NoTime /\ n /= 0 /\ n /= NaN
\* JavaScript  x || y  on string-or-null values.
OrElse(x, y) == IF Truthy(x) THEN x ELSE y

(***************************************************************************)
(* Inputs drawn by the environment.                                        *)
(***************************************************************************)
\* One step of the clock: as long as the validity buffer, so that a token's
\* remaining life meets the buffer exactly at a modelled instant.
TickMs == Buffer * 1
\* expires_in values (seconds): below the 60 s buffer, and above it.
ExpiresIns == {30, 120}
\* Documents the token collection may hold when the process starts.
StoredRecords ==
    { [access_token |-> "A0", refresh_token |-> "R0", expires_in |-> 120, timestamp |-> 0] }
NoRecord == [access_token |-> Null, refresh_token |-> Null, expires_in |-> 0, timestamp |-> NoTime]
\* Documents that lack a field or hold an empty one: findOneAndUpdate runs no
\* validators, and the collection is open to other writers.  A number that
\* is missing reads as undefined and counts as NaN.
MalformedRecords ==
    { [access_token |-> "", refresh_token |-> "R0", expires_in |-> 120, timestamp |-> 0],
      [access_token |-> "A0", refresh_token |-> "", expires_in |-> 120, timestamp |-> 0],
      [access_token |-> "A0", refresh_token |-> "R0", expires_in |-> NaN, timestamp |-> 0],
      [access_token |-> "A0", refresh_token |-> "R0", expires_in |-> 120, timestamp |-> NaN] }
\* Arguments of an external updateTokens call.
ExtAccessTokens == {"A1"}
ExtRefreshTokens == {Null, "R1"}
\* What the token endpoint may answer to refresh request p: a 2xx response
\* whose body holds a new access token (a different one for each request),
\* with or without a rotated refresh token; a non-2xx response; a connection
\* error; or a body that is not JSON.
IssuedTokens == <<"A2", "A3", "A4", "A5", "A6", "A7", "A8">>
IssuedToken(p) == IssuedTokens[((p - 1) % Len(IssuedTokens)) + 1]
OkResponses(p) ==
    { [kind |-> "ok", access_token |-> IssuedToken(p), refresh_token |-> r, expires_in |-> e]
        : r \in {Undefined, "R2"}, e \in ExpiresIns }
FailedResponses ==
    { [kind |-> k, access_token |-> Undefined, refresh_token |-> Undefined, expires_in |-> 0]
        : k \in {"http_error", "network_error", "bad_body"} }
Responses(p) == OkResponses(p) \cup FailedResponses

VARIABLES
    tokenCache,   \* the module-level cache object
    now,          \* Date.now()
    promises,     \* the refresh promises created so far, in creation order
    callers,      \* the getValidAccessToken() calls made so far, in arrival order
    store,        \* the one SpotifyTokens document, or NoRecord
    writes,       \* the findOneAndUpdate calls that have not completed
    failedSaves,  \* who issued the findOneAndUpdate calls that were rejected
    inits,        \* the initializeTokenCache calls made so far
    nUpdates,     \* external updateTokens calls made so far
    installed,    \* the tokens most recently handed to the cache, and by whom
    mirrored,     \* the cache fields as they were right after the updateTokens
                  \* call that saved the stored document
    logins,       \* the GET /callback requests handled so far (src/index.js)
    spent         \* the events that reached earlier lives of the process

\* The rest of src/index.js: the sticky notes of both servers, the stored-token
\* refresh helper, and the connection cache of connectToDatabase.
VARIABLES
    DELETE_SECRET,    \* process.env.DELETE_SECRET as read at start-up
    MONGODB_URI,      \* process.env.MONGODB_URI as read at start-up
    FRONTEND_URI,     \* process.env.FRONTEND_URI as read at start-up
    noteDocs,         \* the documents of the Note collection
    notesFile,        \* what notes.json holds
    noteRequests,     \* the /api/notes requests handled so far
    cachedDb,         \* the module-level connection cache
    connects,         \* the connectToDatabase() calls made so far
    storedRefreshes   \* the refreshStoredAccessToken() calls made so far

siteVars == <<DELETE_SECRET, MONGODB_URI, FRONTEND_URI, noteDocs, notesFile, noteRequests,
              cachedDb, connects, storedRefreshes>>

vars == <<tokenCache, now, promises, callers, store, writes, failedSaves, inits, nUpdates,
          installed, mirrored, logins, spent, siteVars>>

\* let cachedDb = null (line 689).
NoConnection == 0

\* What notes.json holds: the text of an array of notes, or a text that
\* JSON.parse rejects.
JsonArray(notes) == [isArray |-> TRUE, notes |-> notes]
CutShort == [isArray |-> FALSE, notes |-> << >>]

\* A process that serves no notes request and makes neither of these calls.
SiteIdle ==
    /\ DELETE_SECRET = "s3cret"
    /\ MONGODB_URI = "mongodb://db"
    /\ noteDocs = {}
    /\ notesFile = JsonArray(<< >>)
    /\ noteRequests = << >>
    /\ cachedDb = NoConnection
    /\ connects = << >>
    /\ storedRefreshes = << >>

(***************************************************************************)
(* The cache object (lines 9-15).                                          *)
(***************************************************************************)
EmptyCache ==
    [access_token |-> Null, refresh_token |-> Null, expires_at |-> NoTime,
     isRefreshing |-> FALSE, refreshPromise |-> NoPromise]

Fields(cache) ==
    [access_token |-> cache.access_token, refresh_token |-> cache.refresh_token,
     expires_at |-> cache.expires_at]

\* The calls made so far, and the events that came from outside so far.
Callers == 1..Len(callers)
Events == spent + Len(callers) + nUpdates + Len(inits) + Len(logins) + now \div TickMs
              + Len(noteRequests) + Len(connects) + Len(storedRefreshes)

\* What was handed to the cache last: by a refresh ("refresh", by promise
\* `by`), by a call of updateTokens from outside ("update"), or by
\* initializeTokenCache ("loaded"); timestamp is the instant the expiry is
\* counted from.
NothingInstalled ==
    [kind |-> "none", by |-> NoPromise, access_token |-> Null, refresh_token |-> Null,
     expires_in |-> 0, timestamp |-> NoTime]
Handed(kind, by, access_token, refresh_token, expires_in, timestamp) ==
    [kind |-> kind, by |-> by, access_token |-> access_token,
     refresh_token |-> IF Truthy(refresh_token) THEN refresh_token ELSE Null,
     expires_in |-> expires_in, timestamp |-> timestamp]

Pending == {p \in 1..Len(promises) : promises[p].state /= "settled"}

(***************************************************************************)
(* updateTokens (lines 57-90): the cache part, the document it saves, and  *)
(* the catch handler of the fire-and-forget save.                          *)
(***************************************************************************)
\* Variants of lines 61-70 with one slip each: the refresh token assigned
\* even when none was given; the expiry not counted from Date.now(); the
\* expiry left as it was; expires_in not converted to milliseconds.
updateTokens_cache_dropsRefreshToken(cache, access_token, refresh_token, expires_in, t) ==
    [cache EXCEPT
        !.access_token = access_token,
        !.refresh_token = refresh_token,
        !.expires_at = t + expires_in * MsPerSecond,
        !.isRefreshing = FALSE,
        !.refreshPromise = NoPromise]
updateTokens_cache_durationAsInstant(cache, access_token, refresh_token, expires_in, t) ==
    [cache EXCEPT
        !.access_token = access_token,
        !.refresh_token = IF Truthy(refresh_token) THEN refresh_token ELSE @,
        !.expires_at = expires_in * MsPerSecond,
        !.isRefreshing = FALSE,
        !.refreshPromise = NoPromise]
updateTokens_cache_keepsExpiry(cache, access_token, refresh_token, expires_in, t) ==
    [cache EXCEPT
        !.access_token = access_token,
        !.refresh_token = IF Truthy(refresh_token) THEN refresh_token ELSE @,
        !.isRefreshing = FALSE,
        !.refreshPromise = NoPromise]
updateTokens_cache_expiryInSeconds(cache, access_token, refresh_token, expires_in, t) ==
    [cache EXCEPT
        !.access_token = access_token,
        !.refresh_token = IF Truthy(refresh_token) THEN refresh_token ELSE @,
        !.expires_at = t + expires_in,
        !.isRefreshing = FALSE,
        !.refreshPromise = NoPromise]

\* Lines 61-70, with t the value of Date.now().
updateTokens_cache(cache, access_token, refresh_token, expires_in, t) ==
    [cache EXCEPT
        !.access_token = access_token,
        !.refresh_token = IF Truthy(refresh_token) THEN refresh_token ELSE @,
        !.expires_at = t + expires_in * MsPerSecond,
        !.isRefreshing = FALSE,
        !.refreshPromise = NoPromise]

\* Date.now() is read at line 61 and again at line 79, after the log of line
\* 72, which is synchronous and may take any time, as may the scheduler:
\* the second reading is the first or any later one.  Nothing can see which
\* it was before the document is in the store, so a save in flight is kept
\* with the first reading and the reading of line 79 is drawn when the save
\* completes.
SecondReading(t) == {u \in Nat : u >= t}
\* The second readings that are tried.
ReadingsTried(t) == {u \in t..(t + MaxClockSkew) : u \in SecondReading(t)}

\* Lines 75-80; cache is the cache after lines 64-70, t the value of the
\* Date.now() of line 79.
tokensToSave(cache, access_token, refresh_token, expires_in, t) ==
    [access_token |-> access_token,
     refresh_token |-> OrElse(refresh_token, cache.refresh_token),
     expires_in |-> expires_in,
     timestamp |-> t]

\* A variant of lines 87-89 that drops the cached tokens when the save fails.
saveFailed_clearsCache(cache) ==
    [cache EXCEPT !.access_token = Null, !.refresh_token = Null, !.expires_at = NoTime]

\* Lines 87-89: a failed save is logged; the cache is not touched.
saveFailed(cache) == cache

\* The whole synchronous body of updateTokens, called by `origin`: a refresh
\* promise p, or -k for the k-th call from outside the module.
updateTokensBody(access_token, refresh_token, expires_in, origin) ==
    LET cache == updateTokens_cache(tokenCache, access_token, refresh_token, expires_in, now)
    IN  /\ tokenCache' = cache
        /\ writes' = writes \cup
               {[doc |-> tokensToSave(cache, access_token, refresh_token, expires_in, now),
                 origin |-> origin, cache |-> Fields(cache)]}

\* A call of the exported updateTokens from outside the module.
updateTokens(access_token, refresh_token, expires_in) ==
    /\ Events < MaxEvents
    /\ nUpdates' = nUpdates + 1
    /\ updateTokensBody(access_token, refresh_token, expires_in, -(nUpdates + 1))
    /\ installed' = Handed("update", -(nUpdates + 1), access_token, refresh_token, expires_in, now)
    /\ UNCHANGED <<now, promises, callers, store, failedSaves, inits, mirrored, logins, spent, siteVars>>

\* findOneAndUpdate({}, doc, {upsert: true}) completes: the single document
\* now has the saved fields.
saveSucceeds(w) ==
    /\ \E t \in ReadingsTried(w.doc.timestamp) : store' = [w.doc EXCEPT !.timestamp = t]
    /\ mirrored' = w.cache
    /\ writes' = writes \ {w}
    /\ UNCHANGED <<tokenCache, now, promises, callers, failedSaves, inits, nUpdates, installed, logins, spent, siteVars>>

\* findOneAndUpdate rejects: the .catch handler runs.
saveFails(w) ==
    /\ writes' = writes \ {w}
    /\ failedSaves' = failedSaves \cup {w.origin}
    /\ tokenCache' = saveFailed(tokenCache)
    /\ UNCHANGED <<now, promises, callers, store, inits, nUpdates, installed, mirrored, logins, spent, siteVars>>

(***************************************************************************)
(* initializeTokenCache (lines 21-48).                                     *)
(***************************************************************************)
\* Line 26.
recordUsable(tokens) ==
    /\ tokens /= NoRecord
    /\ Truthy(tokens.access_token)
    /\ Truthy(tokens.refresh_token)

\* A variant of line 28 that does not convert expires_in to milliseconds.
initializeTokenCache_expires_at_inSeconds(tokens) ==
    IF tokens.timestamp = NaN \/ tokens.expires_in = NaN
    THEN NaN
    ELSE tokens.timestamp + tokens.expires_in

\* Line 28.
initializeTokenCache_expires_at(tokens) ==
    IF tokens.timestamp = NaN \/ tokens.expires_in = NaN
    THEN NaN
    ELSE tokens.timestamp + tokens.expires_in * MsPerSecond

\* Lines 28-36: the cache object is replaced.
initializeTokenCache_load(tokens) ==
    [access_token |-> tokens.access_token,
     refresh_token |-> tokens.refresh_token,
     expires_at |-> initializeTokenCache_expires_at(tokens),
     isRefreshing |-> FALSE,
     refreshPromise |-> NoPromise]

\* Line 38 runs after the cache was replaced: new Date(NaN).toISOString()
\* throws a RangeError, which the catch of line 44 takes.
logOfLine38Throws(expires_at) == expires_at = NaN

\* What initializeTokenCache returns on each of its ways out (lines 39, 42
\* and 46).
initResult(outcome) == outcome = "loaded"

\* The call: findOne() is issued and awaited.
initializeTokenCache ==
    /\ Events < MaxEvents
    /\ inits' = Append(inits, "reading")
    /\ UNCHANGED <<tokenCache, now, promises, callers, store, writes, failedSaves, nUpdates, installed, mirrored, logins, spent, siteVars>>

\* findOne() resolves with the stored document (or null) and lines 26-43 run
\* (and lines 44-46, when line 38 throws).
findOneResolves(i) ==
    /\ inits[i] = "reading"
    /\ IF recordUsable(store)
       THEN /\ tokenCache' = initializeTokenCache_load(store)
            /\ inits' = [inits EXCEPT ![i] =
                   IF logOfLine38Throws(initializeTokenCache_expires_at(store))
                   THEN "error"
                   ELSE "loaded"]
            /\ installed' = Handed("loaded", NoPromise, store.access_token, store.refresh_token,
                                   store.expires_in, store.timestamp)
       ELSE /\ tokenCache' = tokenCache
            /\ inits' = [inits EXCEPT ![i] = "no_tokens"]
            /\ UNCHANGED installed
    /\ UNCHANGED <<now, promises, callers, store, writes, failedSaves, nUpdates, mirrored, logins, spent, siteVars>>

\* findOne() rejects and lines 44-47 run.
findOneRejects(i) ==
    /\ inits[i] = "reading"
    /\ inits' = [inits EXCEPT ![i] = "error"]
    /\ UNCHANGED <<tokenCache, now, promises, callers, store, writes, failedSaves, nUpdates, installed, mirrored, logins, spent, siteVars>>

(***************************************************************************)
(* getValidAccessToken (lines 165-178) and refreshAccessToken (97-157).    *)
(***************************************************************************)
\* Variants of line 170: the buffer converted to milliseconds twice; no
\* buffer at all.
cacheValid_bufferTimesThousand(cache, t) ==
    /\ Truthy(cache.access_token)
    /\ TruthyNum(cache.expires_at)
    /\ cache.expires_at > t + Buffer * MsPerSecond
cacheValid_noBuffer(cache, t) ==
    /\ Truthy(cache.access_token)
    /\ TruthyNum(cache.expires_at)
    /\ cache.expires_at > t

\* Line 170.
cacheValid(cache, t) ==
    /\ Truthy(cache.access_token)
    /\ TruthyNum(cache.expires_at)
    /\ cache.expires_at > t + Buffer

\* A variant of line 99 that never finds a refresh in progress.
refreshInProgress_ignored(cache) == FALSE

\* Line 99.
refreshInProgress(cache) ==
    cache.isRefreshing /\ cache.refreshPromise /= NoPromise

\* Lines 105-108: the refresh-token check, and the value returned when there
\* is none.
hasRefreshToken(cache) == Truthy(cache.refresh_token)
noRefreshTokenResult == Null

\* A variant of lines 142-153 that also drops the cached tokens.
refreshFailed_cache_clearsTokens(cache) ==
    [cache EXCEPT !.access_token = Null, !.refresh_token = Null, !.expires_at = NoTime,
                  !.isRefreshing = FALSE, !.refreshPromise = NoPromise]

\* A variant of lines 142-153 that leaves the in-flight marker in place.
refreshFailed_cache_keepsMarker(cache) == cache

\* Lines 142-153: what a failed refresh does to the cache, and what it returns.
refreshFailed_cache(cache) ==
    [cache EXCEPT !.isRefreshing = FALSE, !.refreshPromise = NoPromise]

\* A variant of lines 146 and 152 that falls back to the cached access token.
refreshFailedResult_cachedToken == tokenCache.access_token

refreshFailedResult == Null

\* Line 141: what a successful refresh returns.
refreshResult(data) == data.access_token

\* spotifyAuthMiddleware (lines 184-201) is the one caller of
\* getValidAccessToken, and the routes /currently-playing and
\* /recently-played of src/index.js (lines 302 and 340) are what runs on
\* next().  With the value getValidAccessToken gave: the status the
\* middleware answers with (none when it passes the request on), how often it
\* calls next(), what it attaches to the request, and the bearer token of the
\* request the route handler sends to the data API (none when it does not run).
Unauthorized == 401
NoStatus == 0

\* A variant of lines 189-200 without the return of line 191.
middlewareNext_afterReject(access_token) == 1

middlewareStatus(access_token) == IF ~Truthy(access_token) THEN Unauthorized ELSE NoStatus
middlewareNext(access_token) == IF ~Truthy(access_token) THEN 0 ELSE 1
middlewareAttaches(access_token) == IF ~Truthy(access_token) THEN Undefined ELSE access_token
handlerBearer(nextCalls, spotifyAccessToken) ==
    IF nextCalls > 0 THEN spotifyAccessToken ELSE Null

\* A request whose getValidAccessToken() call has returned `result` (a token,
\* or Null) and whose middleware has run on from there, and a request whose
\* call is awaiting a refresh promise.
Returned(promise, result) ==
    [pc |-> "returned", promise |-> promise, result |-> result,
     status |-> middlewareStatus(result),
     next |-> middlewareNext(result),
     spotifyAccessToken |-> middlewareAttaches(result),
     bearer |-> handlerBearer(middlewareNext(result), middlewareAttaches(result))]
Awaiting(promise) ==
    [pc |-> "awaiting", promise |-> promise, result |-> Null,
     status |-> NoStatus, next |-> 0, spotifyAccessToken |-> Undefined, bearer |-> Null]

\* A request reaches the middleware: one getValidAccessToken() call up to its
\* first await, or to its return and what the middleware does then.
getValidAccessToken ==
    /\ Events < MaxEvents
    /\ IF cacheValid(tokenCache, now)
       THEN \* lines 170-173
            /\ callers' = Append(callers, Returned(NoPromise, tokenCache.access_token))
            /\ UNCHANGED <<tokenCache, promises>>
       ELSE IF refreshInProgress(tokenCache)
       THEN \* lines 99-102: await the promise another call created
            /\ callers' = Append(callers, Awaiting(tokenCache.refreshPromise))
            /\ UNCHANGED <<tokenCache, promises>>
       ELSE IF ~hasRefreshToken(tokenCache)
       THEN \* lines 105-108
            /\ callers' = Append(callers, Returned(NoPromise, noRefreshTokenResult))
            /\ UNCHANGED <<tokenCache, promises>>
       ELSE \* lines 111-128 and 156: the request is sent, the promise stored
            /\ promises' = Append(promises,
                   [state |-> "fetch", before |-> Fields(tokenCache), value |-> Null])
            /\ tokenCache' = [tokenCache EXCEPT !.isRefreshing = TRUE,
                                                !.refreshPromise = Len(promises) + 1]
            /\ callers' = Append(callers, Awaiting(Len(promises) + 1))
    /\ UNCHANGED <<now, store, writes, failedSaves, inits, nUpdates, installed, mirrored, logins, spent, siteVars>>

\* The token endpoint answers request p (or the connection fails): the
\* answer waits in the event loop for the refresh function to resume.
UpstreamResponds(p) ==
    /\ promises[p].state = "fetch"
    /\ promises' = [promises EXCEPT ![p].state = "responded"]
    /\ UNCHANGED <<tokenCache, now, callers, store, writes, failedSaves, inits, nUpdates, installed, mirrored, logins, spent, siteVars>>

\* Every call awaiting promise p resumes with its value (line 101 or 156).
Resume(p, value) ==
    [c \in Callers |->
        IF callers[c].pc = "awaiting" /\ callers[c].promise = p
        THEN Returned(p, value)
        ELSE callers[c]]

\* The refresh function resumes with the answer `data` after lines 128-129
\* and runs to its return; the promise settles and its awaiters resume.
refreshResumes(p, data) ==
    /\ promises[p].state = "responded"
    /\ IF data.kind = "ok"
       THEN \* lines 131-141
            /\ updateTokensBody(data.access_token, OrElse(data.refresh_token, Null),
                                data.expires_in, p)
            /\ promises' = [promises EXCEPT ![p] =
                   [state |-> "settled", before |-> Fields(EmptyCache),
                    value |-> refreshResult(data)]]
            /\ callers' = Resume(p, refreshResult(data))
            /\ installed' = Handed("refresh", p, data.access_token, data.refresh_token,
                                   data.expires_in, now)
       ELSE \* lines 142-153
            /\ tokenCache' = refreshFailed_cache(tokenCache)
            /\ promises' = [promises EXCEPT ![p] =
                   [state |-> "settled", before |-> Fields(EmptyCache),
                    value |-> refreshFailedResult]]
            /\ callers' = Resume(p, refreshFailedResult)
            /\ UNCHANGED <<writes, installed>>
    /\ UNCHANGED <<now, store, failedSaves, inits, nUpdates, mirrored, logins, spent, siteVars>>

\* Time passes.
Tick ==
    /\ Events < MaxEvents
    /\ now' = now + TickMs
    /\ UNCHANGED <<tokenCache, promises, callers, store, writes, failedSaves, inits, nUpdates, installed, mirrored, logins, spent, siteVars>>

(***************************************************************************)
(* GET /callback of src/index.js (lines 178-239): the authorization-code   *)
(* exchange, and writeSpotifyTokens (lines 57-66), which it awaits.        *)
(***************************************************************************)
\* A text is given as its UTF-16 code units, as a string of the program
\* holds it.  The texts of lines 186-235 and of the answers below:
\* 'error'
key_error ==
    <<101, 114, 114, 111, 114>>
\* 'details'
key_details ==
    <<100, 101, 116, 97, 105, 108, 115>>
\* 'message'
key_message ==
    <<109, 101, 115, 115, 97, 103, 101>>
\* 'state_missing'
state_missing ==
    <<115, 116, 97, 116, 101, 95, 109, 105, 115, 115, 105, 110, 103>>
\* 'invalid_token'
invalid_token ==
    <<105, 110, 118, 97, 108, 105, 100, 95, 116, 111, 107, 101, 110>>
\* 'api_error'
api_error ==
    <<97, 112, 105, 95, 101, 114, 114, 111, 114>>
\* 'URI malformed'
URI_malformed ==
    <<85, 82, 73, 32, 109, 97, 108, 102, 111, 114, 109, 101, 100>>
\* 'invalid_grant'
invalid_grant ==
    <<105, 110, 118, 97, 108, 105, 100, 95, 103, 114, 97, 110, 116>>
\* 'Invalid authorization code'
Invalid_authorization_code ==
    <<73, 110, 118, 97, 108, 105, 100, 32, 97, 117, 116, 104, 111, 114, 105,
      122, 97, 116, 105, 111, 110, 32, 99, 111, 100, 101>>
\* 'ECONNRESET'
ECONNRESET ==
    <<69, 67, 79, 78, 78, 82, 69, 83, 69, 84>>
\* 'fetch failed'
fetch_failed ==
    <<102, 101, 116, 99, 104, 32, 102, 97, 105, 108, 101, 100>>
\* 'Unexpected token '<', "<LF><html><LF><bo"... is not valid JSON'
not_valid_JSON ==
    <<85, 110, 101, 120, 112, 101, 99, 116, 101, 100, 32, 116, 111, 107, 101,
      110, 32, 39, 60, 39, 44, 32, 34, 10, 60, 104, 116, 109, 108, 62, 10,
      60, 98, 111, 34, 46, 46, 46, 32, 105, 115, 32, 110, 111, 116, 32, 118,
      97, 108, 105, 100, 32, 74, 83, 79, 78>>
\* A text that ends in the first half of a surrogate pair.
HalfPair == <<111, 107, 55357>>

\* What the token endpoint may answer to an exchange: a 2xx response with
\* the tokens of the login, a non-2xx response with a JSON body, or nothing
\* (fetch or response.json() rejects with an error that has a message).  A
\* body is the record of the properties it has, each of them a text.
ExchangedExpiresIn == 3600
EmptyBody == [name \in {} |-> << >>]
ErrorBodies ==
    { EmptyBody,
      [error |-> invalid_grant],
      [error |-> invalid_grant, error_description |-> Invalid_authorization_code],
      [error |-> invalid_grant, error_description |-> HalfPair] }
ErrorMessages == { ECONNRESET, fetch_failed, not_valid_JSON, HalfPair }
ExchangeResponses ==
    { [kind |-> "ok", access_token |-> "A9", refresh_token |-> "R9",
       expires_in |-> ExchangedExpiresIn] }
    \cup { [kind |-> "http_error", body |-> b] : b \in ErrorBodies }
    \cup { [kind |-> "network_error", message |-> m] : m \in ErrorMessages }

\* querystring.escape, which stringify applies to every key and value.  The
\* code units it keeps: letters, digits and  ! ' ( ) * - . _ ~
noEscape == {33, 39, 40, 41, 42, 45, 46, 95, 126} \cup (48..57) \cup (65..90) \cup (97..122)
Numerals == <<"0", "1", "2", "3", "4", "5", "6", "7", "8", "9">>
Capitals ==
    <<"A", "B", "C", "D", "E", "F", "G", "H", "I", "J", "K", "L", "M",
      "N", "O", "P", "Q", "R", "S", "T", "U", "V", "W", "X", "Y", "Z">>
Smalls ==
    <<"a", "b", "c", "d", "e", "f", "g", "h", "i", "j", "k", "l", "m",
      "n", "o", "p", "q", "r", "s", "t", "u", "v", "w", "x", "y", "z">>
\* The character of a code unit that is kept.
charOf(c) ==
    IF c \in 48..57 THEN Numerals[c - 47]
    ELSE IF c \in 65..90 THEN Capitals[c - 64]
    ELSE IF c \in 97..122 THEN Smalls[c - 96]
    ELSE CASE c = 33 -> "!" [] c = 39 -> "'" [] c = 40 -> "(" [] c = 41 -> ")"
           [] c = 42 -> "*" [] c = 45 -> "-" [] c = 46 -> "." [] c = 95 -> "_"
           [] c = 126 -> "~"
\* A byte as a percent sign and two hexadecimal digits.
HexDigits == Numerals \o <<"A", "B", "C", "D", "E", "F">>
hexTable(byte) == "%" \o HexDigits[(byte \div 16) + 1] \o HexDigits[(byte % 16) + 1]

\* The UTF-8 bytes of the code unit at i, percent-encoded.  A code unit of
\* the surrogate range is joined with the ten low bits of the next one,
\* whatever that is.
encodeUnit(str, i) ==
    LET c == str[i]
    IN  IF c < 128 THEN (IF c \in noEscape THEN charOf(c) ELSE hexTable(c))
        ELSE IF c < 2048 THEN hexTable(192 + (c \div 64)) \o hexTable(128 + (c % 64))
        ELSE IF c < 55296 \/ c >= 57344
        THEN hexTable(224 + (c \div 4096)) \o hexTable(128 + ((c \div 64) % 64))
             \o hexTable(128 + (c % 64))
        ELSE LET point == 65536 + ((c % 1024) * 1024) + (str[i + 1] % 1024)
             IN  hexTable(240 + (point \div 262144))
                 \o hexTable(128 + ((point \div 4096) % 64))
                 \o hexTable(128 + ((point \div 64) % 64))
                 \o hexTable(128 + (point % 64))
\* How many code units the step at i consumes.
unitsAt(str, i) == IF str[i] \in 55296..57343 THEN 2 ELSE 1
\* escape throws a URIError (its message: URI malformed) when a code unit of
\* the surrogate range is the last one of the text.
RECURSIVE escapeThrows(_, _)
escapeThrows(str, i) ==
    IF i > Len(str) THEN FALSE
    ELSE IF unitsAt(str, i) = 2 /\ i = Len(str) THEN TRUE
    ELSE escapeThrows(str, i + unitsAt(str, i))
RECURSIVE encodeStr(_, _)
encodeStr(str, i) ==
    IF i > Len(str) THEN ""
    ELSE encodeUnit(str, i) \o encodeStr(str, i + unitsAt(str, i))
\* The result is a string of the characters kept, percent signs and digits.
URIError == "<URIError>"
escape(str) == IF escapeThrows(str, 1) THEN URIError ELSE encodeStr(str, 1)

\* querystring.stringify of an object given as its <<key, value>> pairs:
\* key=value joined with &, key and value escaped.  A value that is
\* undefined is given as the empty text, which is what stringify writes for
\* it.  It throws when escape does.
stringifyThrows(pairs) ==
    \E n \in 1..Len(pairs) : escapeThrows(pairs[n][1], 1) \/ escapeThrows(pairs[n][2], 1)
RECURSIVE joined(_)
joined(pairs) ==
    IF pairs = << >> THEN ""
    ELSE escape(pairs[1][1]) \o "=" \o escape(pairs[1][2])
         \o (IF Len(pairs) > 1 THEN "&" \o joined(Tail(pairs)) ELSE "")
stringify(pairs) == IF stringifyThrows(pairs) THEN URIError ELSE joined(pairs)

\* Line 227:  data.error_description || data.error, as stringify receives
\* it.  A property the body lacks is undefined, an empty string is falsy.
details(body) ==
    IF "error_description" \in DOMAIN body /\ body.error_description /= << >>
    THEN body.error_description
    ELSE IF "error" \in DOMAIN body THEN body.error
    ELSE << >>

\* What FRONTEND_URI may be: not set, which is how the repository comes, or
\* the address of the front end.
FrontendUris == {Undefined, "https://front.example"}
\* A value as the operator + turns it into a string.
stringOf(value) == IF value = Undefined THEN "undefined" ELSE value
\* Line 221:  FRONTEND_URI + '/about'.
aboutLocation == stringOf(FRONTEND_URI) \o "/about"

\* A handler that has answered with a redirect to `location`, and the
\* document it gave to writeSpotifyTokens (NoRecord if it gave none).
Redirected(location, doc) == [pc |-> "redirected", location |-> location, doc |-> doc]
\* A handler that threw in its catch block (line 233): its promise is
\* rejected and it has sent no answer.
Unanswered == [pc |-> "threw", location |-> Null, doc |-> NoRecord]

\* Lines 178-206: the request arrives; without a state parameter it is
\* answered at once, otherwise the exchange request is sent and awaited.
callback(hasState) ==
    /\ Events < MaxEvents
    /\ logins' = Append(logins,
           IF hasState
           THEN [pc |-> "exchanging", location |-> Null, doc |-> NoRecord]
           ELSE Redirected("/#" \o stringify(<< <<key_error, state_missing>> >>), NoRecord))
    /\ UNCHANGED <<tokenCache, now, promises, callers, store, writes, failedSaves, inits,
                   nUpdates, installed, mirrored, spent, siteVars>>

\* Lines 206-237: the exchange is answered.  On success the tokens go to
\* writeSpotifyTokens, which is awaited (line 216); the cache is not touched.
\* Otherwise the handler redirects to a fragment that names the failure.
exchangeResponds(k, data) ==
    /\ logins[k].pc = "exchanging"
    /\ logins' = [logins EXCEPT ![k] =
           IF data.kind = "ok"
           THEN [pc |-> "writing", location |-> Null,
                 doc |-> [access_token |-> data.access_token,
                          refresh_token |-> data.refresh_token,
                          expires_in |-> data.expires_in,
                          timestamp |-> now]]
           ELSE IF data.kind = "http_error"
                   /\ ~stringifyThrows(<< <<key_error, invalid_token>>,
                                          <<key_details, details(data.body)>> >>)
           THEN \* lines 223-228
                Redirected("/#" \o stringify(<< <<key_error, invalid_token>>,
                                                <<key_details, details(data.body)>> >>),
                           NoRecord)
           ELSE \* lines 230-236: the catch of what fetch, response.json() or
                \* the stringify of line 225 threw
                LET message == IF data.kind = "http_error" THEN URI_malformed
                               ELSE data.message
                    fragment == stringify(<< <<key_error, api_error>>,
                                             <<key_message, message>> >>)
                IN  IF fragment = URIError
                    THEN Unanswered
                    ELSE Redirected("/#" \o fragment, NoRecord)]
    /\ UNCHANGED <<tokenCache, now, promises, callers, store, writes, failedSaves, inits,
                   nUpdates, installed, mirrored, spent, siteVars>>

\* Lines 59-65 and 217-221: findOneAndUpdate completes, or fails and the
\* error is logged; either way the handler redirects to the front end.
writeSpotifyTokensEnds(k, written) ==
    /\ logins[k].pc = "writing"
    /\ IF written
       THEN store' = logins[k].doc /\ mirrored' = Fields(EmptyCache)
       ELSE UNCHANGED <<store, mirrored>>
    /\ logins' = [logins EXCEPT ![k] = Redirected(aboutLocation, logins[k].doc)]
    /\ UNCHANGED <<tokenCache, now, promises, callers, writes, failedSaves, inits,
                   nUpdates, installed, spent, siteVars>>

(***************************************************************************)
(* The process ends and is started again: the module is loaded anew (lines *)
(* 9-15), the requests and promises of the old process are gone, the store *)
(* stays.  A save the old process had issued may still reach the store, or *)
(* never does; its handlers no longer run.                                 *)
(***************************************************************************)
OfEarlierLife(w) == [w EXCEPT !.origin = NoPromise]

restart ==
    /\ Events < MaxEvents
    /\ spent' = spent + Len(callers) + nUpdates + Len(inits) + Len(logins) + 1
                      + Len(noteRequests) + Len(connects) + Len(storedRefreshes)
    /\ tokenCache' = EmptyCache
    /\ promises' = << >>
    /\ callers' = << >>
    /\ inits' = << >>
    /\ logins' = << >>
    /\ nUpdates' = 0
    /\ failedSaves' = {}
    /\ installed' = NothingInstalled
    /\ \E surviving \in SUBSET writes : writes' = {OfEarlierLife(w) : w \in surviving}
    /\ noteRequests' = << >>
    /\ cachedDb' = NoConnection
    /\ connects' = << >>
    /\ storedRefreshes' = << >>
    /\ UNCHANGED <<now, store, mirrored, DELETE_SECRET, MONGODB_URI, FRONTEND_URI, noteDocs, notesFile>>

(***************************************************************************)
(* The specifications.                                                     *)
(***************************************************************************)
Init ==
    /\ tokenCache = EmptyCache
    /\ now = 0
    /\ promises = << >>
    /\ callers = << >>
    /\ store \in StoredRecords \cup {NoRecord}
    /\ writes = {}
    /\ failedSaves = {}
    /\ inits = << >>
    /\ nUpdates = 0
    /\ installed = NothingInstalled
    /\ mirrored = Fields(EmptyCache)
    /\ logins = << >>
    /\ spent = 0
    /\ SiteIdle
    /\ FRONTEND_URI = Undefined

\* The steps of the request path and of the refresh it starts.
RequestStep ==
    \/ getValidAccessToken
    \/ \E p \in 1..Len(promises) : UpstreamResponds(p)
    \/ \E p \in 1..Len(promises) : \E data \in Responses(p) : refreshResumes(p, data)

\* The steps that install tokens from outside the request path.
InstallStep ==
    \/ \E a \in ExtAccessTokens, r \in ExtRefreshTokens, e \in ExpiresIns : updateTokens(a, r, e)
    \/ \E i \in 1..Len(inits) : findOneResolves(i)

OtherStep ==
    \/ \E w \in writes : saveSucceeds(w)
    \/ \E w \in writes : saveFails(w)
    \/ initializeTokenCache
    \/ \E i \in 1..Len(inits) : findOneRejects(i)
    \/ Tick

Next == RequestStep \/ InstallStep \/ OtherStep

\* Every interleaving of the exported operations and the request path.
Spec == Init /\ [][Next]_vars

\* The same, started with any document in the store.
InitAnyStore ==
    /\ tokenCache = EmptyCache
    /\ now = 0
    /\ promises = << >>
    /\ callers = << >>
    /\ store \in StoredRecords \cup MalformedRecords \cup {NoRecord}
    /\ writes = {}
    /\ failedSaves = {}
    /\ inits = << >>
    /\ nUpdates = 0
    /\ installed = NothingInstalled
    /\ mirrored = Fields(EmptyCache)
    /\ logins = << >>
    /\ spent = 0
    /\ SiteIdle
    /\ FRONTEND_URI = Undefined
SpecAnyStore == InitAnyStore /\ [][Next]_vars

\* The same, with restarts of the process.
NextRestart == Next \/ restart
SpecRestart == Init /\ [][NextRestart]_vars

\* The request path alone against a refresh: tokens are installed from
\* outside only while no refresh is outstanding.
NextRequests == RequestStep \/ (Pending = {} /\ InstallStep) \/ OtherStep
SpecRequests == Init /\ [][NextRequests]_vars

\* The server of src/index.js: it imports the middleware alone (line 10),
\* so its process never calls initializeTokenCache or updateTokens; it
\* serves GET /callback and the two routes behind the middleware.  The
\* handlers of mongoose.connect (lines 17-19) only log: they are no step of
\* the model.
CallbackStep ==
    \/ \E hasState \in BOOLEAN : callback(hasState)
    \/ \E k \in 1..Len(logins) : \E data \in ExchangeResponses : exchangeResponds(k, data)
    \/ \E k \in 1..Len(logins) : \E written \in BOOLEAN : writeSpotifyTokensEnds(k, written)
\* No step of the server hands tokens to the cache (ServerCacheStaysEmpty), so
\* none of its requests starts a refresh and the steps of a refresh are never
\* enabled in it.
NextServer == CallbackStep \/ getValidAccessToken \/ Tick
\* It starts as Init says, with FRONTEND_URI set or not.
InitServer ==
    /\ tokenCache = EmptyCache
    /\ now = 0
    /\ promises = << >>
    /\ callers = << >>
    /\ store \in StoredRecords \cup {NoRecord}
    /\ writes = {}
    /\ failedSaves = {}
    /\ inits = << >>
    /\ nUpdates = 0
    /\ installed = NothingInstalled
    /\ mirrored = Fields(EmptyCache)
    /\ logins = << >>
    /\ spent = 0
    /\ SiteIdle
    /\ FRONTEND_URI \in FrontendUris
SpecServer == InitServer /\ [][NextServer]_vars
ServerCacheStaysEmpty == tokenCache = EmptyCache /\ promises = << >>

\* The event loop runs a continuation whose awaited I/O has completed.  No
\* fairness is assumed of the token endpoint or of the database.
FairSpec ==
    /\ Spec
    /\ \A p \in 1..MaxEvents :
          WF_vars(\E data \in Responses(p) : p \in 1..Len(promises) /\ refreshResumes(p, data))

(***************************************************************************)
(* Vocabulary of the properties.                                           *)
(***************************************************************************)
\* The cached access token is stale: absent, or within the buffer of its end.
Stale == ~Truthy(tokenCache.access_token) \/ tokenCache.expires_at <= now + Buffer
\* The cache holds an access token that outlives the buffer.
Fresh == Truthy(tokenCache.access_token) /\ tokenCache.expires_at > now + Buffer
\* A call arrives in this step; it is call c, or call c returns in this step.
Arrival == Len(callers') = Len(callers) + 1
Arrived == Len(callers')
Returns(c) ==
    /\ callers'[c].pc = "returned"
    /\ c \in Callers => callers[c].pc /= "returned"
\* Refresh p ends in this step; it ends as a failure; it ends as a success.
Settles(p) == p \in Pending /\ promises'[p].state = "settled"
Fails(p) == Settles(p) /\ installed'.by /= p
Succeeds(p) == Settles(p) /\ installed'.by = p
AwaitersOf(p) == {c \in Callers : callers[c].pc = "awaiting" /\ callers[c].promise = p}

(***************************************************************************)
(* C1.  Calls that arrive while the token is stale and a refresh token is  *)
(* cached share one refresh: the first sends one request to the token      *)
(* endpoint, the others send none and await the request outstanding, never *)
(* more than one request is outstanding, and when the refresh ends every   *)
(* awaiting call returns the promise's one value: the issued access token  *)
(* on success, the failure value on failure.                               *)
(***************************************************************************)
C1_Step ==
    /\ Arrival /\ Stale /\ Truthy(tokenCache.refresh_token) =>
          /\ callers'[Arrived].pc = "awaiting"
          /\ callers'[Arrived].promise \in 1..Len(promises')
          /\ promises'[callers'[Arrived].promise].state /= "settled"
          /\ IF Pending = {}
             THEN Len(promises') = Len(promises) + 1
             ELSE promises' = promises
    /\ \A p \in 1..Len(promises) :
          Settles(p) =>
              /\ \A c \in AwaitersOf(p) : callers'[c] = Returned(p, promises'[p].value)
              /\ Succeeds(p) => promises'[p].value = IssuedToken(p)
              /\ Fails(p) => promises'[p].value = refreshFailedResult
\* C1: at most one refresh request is outstanding, every awaiting call awaits it, and every step keeps to C1_Step.
C1_SingleFlight ==
    /\ [](Cardinality(Pending) <= 1)
    /\ [](\A c \in Callers : callers[c].pc = "awaiting" => callers[c].promise \in Pending)
    /\ [][C1_Step]_vars
C1_Witness ==
    /\ Len(callers) >= 3
    /\ \E p \in 1..Len(promises) :
          \A c \in Callers : callers[c] = Returned(p, IssuedToken(p))

(***************************************************************************)
(* C2.  A call that arrives while the cache holds an access token ending   *)
(* more than 60 s from now returns that token at once; the step sends no   *)
(* request, touches neither the store nor the cache, also while a refresh  *)
(* started earlier is outstanding.                                         *)
(***************************************************************************)
C2_Step ==
    Arrival /\ Fresh =>
        /\ callers'[Arrived] = Returned(NoPromise, tokenCache.access_token)
        /\ UNCHANGED <<tokenCache, promises, store, writes, inits>>
\* C2: every step keeps to C2_Step: a call arriving at a fresh cache is served from it, with no I/O.
C2_CachedTokenServed == [][C2_Step]_vars
C2_Witness ==
    /\ Pending /= {}
    /\ Fresh
    /\ \E c \in Callers : callers[c] = Returned(NoPromise, tokenCache.access_token)
    /\ \E c \in Callers : callers[c].pc = "awaiting"

(***************************************************************************)
(* C3.  As claimed: every access token a call returns ends, at the moment  *)
(* it is returned, more than 60 s in the future.                           *)
(***************************************************************************)
C3_Original_Step ==
    \A c \in 1..Len(callers') :
        Returns(c) /\ Truthy(callers'[c].result) =>
            /\ tokenCache'.access_token = callers'[c].result
            /\ tokenCache'.expires_at > now' + Buffer
\* C3 as claimed: every returned token ends more than 60 s after its return.
C3_ReturnedTokenOutlivesBuffer == [][C3_Original_Step]_vars

(***************************************************************************)
(* C3, amended.  A token returned from the cache ends more than 60 s in    *)
(* the future.  A token returned as the result of a refresh is the token   *)
(* the cache holds at that moment, and it ends expires_in seconds from     *)
(* then, expires_in being what the token endpoint answered: more than 60 s *)
(* in the future exactly when that expires_in is above 60.                 *)
(***************************************************************************)
C3_Amended_Step ==
    \A c \in 1..Len(callers') :
        Returns(c) /\ Truthy(callers'[c].result) =>
            /\ tokenCache'.access_token = callers'[c].result
            /\ callers'[c].promise = NoPromise =>
                   tokenCache'.expires_at > now' + Buffer
            /\ callers'[c].promise /= NoPromise =>
                   /\ installed'.by = callers'[c].promise
                   /\ tokenCache'.expires_at = now' + installed'.expires_in * MsPerSecond
                   /\ (tokenCache'.expires_at > now' + Buffer) <=> (installed'.expires_in > 60)
\* C3 amended: every step keeps to C3_Amended_Step.
C3_ReturnedTokenExpiry == [][C3_Amended_Step]_vars
C3_Witness ==
    \E c \in Callers :
        /\ callers[c].pc = "returned"
        /\ callers[c].promise /= NoPromise
        /\ callers[c].result = tokenCache.access_token
        /\ Truthy(callers[c].result)
        /\ installed.by = callers[c].promise
        /\ installed.timestamp = now
        /\ tokenCache.expires_at <= now + Buffer

(***************************************************************************)
(* C4.  When a refresh fails (non-2xx answer, connection error or a body   *)
(* that is not JSON), the cached access_token, refresh_token and           *)
(* expires_at are what they were when the refresh started, the in-flight   *)
(* marker is cleared, and every call awaiting it gets the failure value.   *)
(***************************************************************************)
C4_Step ==
    \A p \in 1..Len(promises) :
        Fails(p) =>
            /\ Fields(tokenCache') = promises[p].before
            /\ ~tokenCache'.isRefreshing
            /\ tokenCache'.refreshPromise = NoPromise
            /\ promises'[p].value = refreshFailedResult
            /\ \A c \in AwaitersOf(p) : callers'[c] = Returned(p, refreshFailedResult)
\* C4: every step in which a refresh fails keeps to C4_Step.
C4_FailedRefreshKeepsTokens == [][C4_Step]_vars
C4_Witness ==
    \E c \in Callers :
        /\ callers[c].pc = "returned"
        /\ callers[c].promise /= NoPromise
        /\ callers[c].result = refreshFailedResult
        /\ promises[callers[c].promise].value = refreshFailedResult
        /\ Truthy(tokenCache.access_token)
        /\ Truthy(tokenCache.refresh_token)
        /\ ~tokenCache.isRefreshing

(***************************************************************************)
(* C5.  When a refresh succeeds with {access_token, refresh_token?,        *)
(* expires_in}, the cache then holds that access_token, expires_at = the   *)
(* time of the update + expires_in, and as refresh_token the answered one  *)
(* if there was one, else the one cached just before, unchanged.           *)
(***************************************************************************)
C5_Step ==
    \A p \in 1..Len(promises) :
        Succeeds(p) =>
            /\ installed'.kind = "refresh"
            /\ installed'.access_token = IssuedToken(p)
            /\ tokenCache'.access_token = installed'.access_token
            /\ tokenCache'.expires_at = now + installed'.expires_in * MsPerSecond
            /\ tokenCache'.refresh_token =
                   IF Truthy(installed'.refresh_token)
                   THEN installed'.refresh_token
                   ELSE tokenCache.refresh_token
\* C5: every step in which a refresh succeeds keeps to C5_Step.
C5_SuccessfulRefreshUpdatesCache == [][C5_Step]_vars
\* The scenario of the specification: the refresh token is carried forward
\* by a refresh that brought none, some time after the process started.
C5_Witness ==
    /\ installed.kind = "refresh"
    /\ installed.refresh_token = Null
    /\ installed.timestamp = now
    /\ now > 0
    /\ tokenCache.access_token = installed.access_token
    /\ Truthy(tokenCache.refresh_token)
    /\ tokenCache.expires_at = now + installed.expires_in * MsPerSecond

(***************************************************************************)
(* C6.  As claimed: with no refresh token cached and a stale access token, *)
(* a call fails without a request to the token endpoint, the cache stays   *)
(* as it is, and the value the caller gets differs from the value a failed *)
(* refresh gives.                                                          *)
(***************************************************************************)
C6_Step ==
    Arrival /\ Stale /\ ~Truthy(tokenCache.refresh_token) =>
        /\ callers'[Arrived].pc = "returned"
        /\ ~Truthy(callers'[Arrived].result)
        /\ callers'[Arrived].result /= refreshFailedResult
        /\ UNCHANGED <<tokenCache, promises>>
\* C6 as claimed: the no-refresh-token result differs from the failed-refresh result.
C6_NoRefreshTokenDistinguished == [][C6_Step]_vars

(***************************************************************************)
(* C7.  Once the cache holds a refresh token it holds one ever after, and  *)
(* the cached refresh token changes only in a step that hands the cache a  *)
(* new one: a refresh whose answer has one, an updateTokens call given     *)
(* one, or initializeTokenCache loading one.                               *)
(***************************************************************************)
InstallsTokens ==
    \/ nUpdates' /= nUpdates
    \/ inits' /= inits
    \/ \E p \in 1..Len(promises) : Succeeds(p)
C7_Step ==
    /\ Truthy(tokenCache.refresh_token) => Truthy(tokenCache'.refresh_token)
    /\ tokenCache'.refresh_token /= tokenCache.refresh_token =>
          /\ InstallsTokens
          /\ Truthy(installed'.refresh_token)
          /\ tokenCache'.refresh_token = installed'.refresh_token
\* C7: every step keeps the cached refresh token, or replaces it by one handed over in that step.
C7_RefreshTokenKept == [][C7_Step]_vars
\* A refresh token loaded from the store has survived both an updateTokens
\* call and a refresh that brought none.
C7_Witness ==
    /\ tokenCache.refresh_token = "R0"
    /\ nUpdates > 0
    /\ installed.kind = "refresh"
    /\ installed.refresh_token = Null
    /\ \E p \in 1..Len(promises) : promises[p].value = refreshFailedResult /\ promises[p].state = "settled"

(***************************************************************************)
(* C8.  In every state another task can see, the cached expires_at is the  *)
(* expiry computed for the access token cached now (the instant it was     *)
(* handed over, or the stored timestamp, plus its expires_in), and one of  *)
(* the two fields is absent exactly when the other is.                     *)
(***************************************************************************)
C8_TokenAndExpiryTogether ==
    /\ (tokenCache.access_token = Null) <=> (tokenCache.expires_at = NoTime)
    /\ installed.kind = "none" => tokenCache.access_token = Null
    /\ installed.kind /= "none" =>
          /\ tokenCache.access_token = installed.access_token
          /\ tokenCache.expires_at = installed.timestamp + installed.expires_in * MsPerSecond
C8_Witness ==
    /\ installed.kind = "refresh"
    /\ installed.by = 2
    /\ installed.expires_in = 120
    /\ tokenCache.access_token = IssuedToken(2)
    /\ nUpdates > 0
    /\ now > installed.timestamp

(***************************************************************************)
(* C9.  The save that follows a successful refresh is not awaited: while   *)
(* it is outstanding, and when it fails, the refresh has already given the *)
(* new access token to every call that awaited it, and a failing save      *)
(* changes neither the cache nor any call's result.                        *)
(***************************************************************************)
Delivered(w) ==
    /\ promises[w.origin].state = "settled"
    /\ promises[w.origin].value = w.doc.access_token
    /\ AwaitersOf(w.origin) = {}
C9_Step ==
    \A w \in writes :
        w \notin writes' /\ failedSaves' /= failedSaves =>
            /\ UNCHANGED <<tokenCache, callers, promises>>
            /\ w.origin > 0 => Delivered(w)
C9_SaveFailureSwallowed ==
    /\ [](\A w \in writes : w.origin > 0 => Delivered(w))
    /\ [][C9_Step]_vars
C9_Witness ==
    \E p \in failedSaves :
        /\ p > 0
        /\ tokenCache.access_token = IssuedToken(p)
        /\ installed.by = p
        /\ Len(callers) >= 2
        /\ \A c \in Callers : callers[c] = Returned(p, IssuedToken(p))

(***************************************************************************)
(* C10.  As claimed: a refresh whose request the token endpoint never      *)
(* answers still ends (as a failure, after a bounded time), so the marker  *)
(* is cleared and every call awaiting it gets a result.                    *)
(***************************************************************************)
C10_RefreshEnds ==
    \A p \in 1..MaxEvents : (p \in Pending) ~> (p \notin Pending /\ AwaitersOf(p) = {})

(***************************************************************************)
(* C11.  As claimed: a failed refresh is not terminal.  When a refresh     *)
(* ends, as a success or as a failure, no in-flight marker remains; a      *)
(* marker appears only when a call arrives; a call that arrives while the  *)
(* token is stale, a refresh token is cached and no marker is set sends a  *)
(* new request to the token endpoint; and when a refresh succeeds the      *)
(* cache is valid again (its token outlives the buffer).                   *)
(***************************************************************************)
MarkerSet == tokenCache.isRefreshing \/ tokenCache.refreshPromise /= NoPromise
C11_Retry_Step ==
    /\ \A p \in 1..Len(promises) : Settles(p) => ~MarkerSet'
    /\ ~MarkerSet /\ MarkerSet' => Arrival
    /\ Arrival /\ Stale /\ Truthy(tokenCache.refresh_token) /\ ~MarkerSet =>
          /\ Len(promises') = Len(promises) + 1
          /\ promises'[Len(promises')].state = "fetch"
          /\ callers'[Arrived] = Awaiting(Len(promises'))
          /\ tokenCache'.isRefreshing
          /\ tokenCache'.refreshPromise = Len(promises')
C11_Original_Step ==
    /\ C11_Retry_Step
    /\ \A p \in 1..Len(promises) : Succeeds(p) => Fresh'
\* C11 as claimed: a refresh that ends leaves no marker, the next stale call retries, and a successful refresh makes the cache valid.
C11_RetryMakesValid == [][C11_Original_Step]_vars

(***************************************************************************)
(* C11, amended.  As above, but a successful refresh leaves the cache      *)
(* holding the issued token with expires_at = now + expires_in, which is   *)
(* valid (beyond the 60 s buffer) exactly when the answered expires_in is  *)
(* above 60.                                                               *)
(***************************************************************************)
C11_Amended_Step ==
    /\ C11_Retry_Step
    /\ \A p \in 1..Len(promises) :
          Succeeds(p) =>
              /\ tokenCache'.access_token = IssuedToken(p)
              /\ tokenCache'.expires_at = now + installed'.expires_in * MsPerSecond
              /\ Fresh' <=> installed'.expires_in > 60
\* C11 amended: every step keeps to C11_Amended_Step.
C11_FailedRefreshRetried == [][C11_Amended_Step]_vars
\* A refresh failed, the next call sent a second request, and its success
\* made the cache valid.
C11_Witness ==
    /\ Len(promises) >= 2
    /\ promises[1].state = "settled" /\ promises[1].value = refreshFailedResult
    /\ promises[2].state = "settled" /\ promises[2].value = IssuedToken(2)
    /\ installed.by = 2
    /\ Fresh
    /\ ~MarkerSet
    /\ \E c \in Callers : callers[c] = Returned(1, refreshFailedResult)
    /\ \E c \in Callers : callers[c] = Returned(2, IssuedToken(2))

(***************************************************************************)
(* C12.  A call that arrives right after updateTokens(a, r, e) from        *)
(* outside, with e above 60 s (nothing handed to the cache since, no time  *)
(* passed), returns a and sends no request, also when the cache was empty  *)
(* before the update.  And the update leaves the cache as a successful     *)
(* refresh answering the same values leaves it: access_token = a,          *)
(* refresh_token = r if r is given and the one cached before otherwise,    *)
(* expires_at = now + e, no marker.                                        *)
(***************************************************************************)
AfterHandOver ==
    [access_token |-> installed'.access_token,
     refresh_token |-> IF Truthy(installed'.refresh_token)
                       THEN installed'.refresh_token
                       ELSE tokenCache.refresh_token,
     expires_at |-> now + installed'.expires_in * MsPerSecond,
     isRefreshing |-> FALSE,
     refreshPromise |-> NoPromise]
C12_Step ==
    /\ Arrival /\ installed.kind = "update" /\ installed.timestamp = now
               /\ installed.expires_in > 60 =>
          /\ callers'[Arrived] = Returned(NoPromise, installed.access_token)
          /\ UNCHANGED <<tokenCache, promises, store, writes>>
    /\ nUpdates' /= nUpdates =>
          /\ installed'.kind = "update"
          /\ installed'.access_token \in ExtAccessTokens
          /\ tokenCache' = AfterHandOver
    /\ \A p \in 1..Len(promises) :
          Succeeds(p) => installed'.kind = "refresh" /\ tokenCache' = AfterHandOver
\* C12: a call right after an external update with e > 60 s is served the updated token without I/O, and the update changes the cache as a successful refresh does.
C12_UpdateThenServed == [][C12_Step]_vars
\* The scenario of the specification: empty cache, one update with both
\* tokens, and the call that follows at once.
C12_Witness ==
    /\ inits = << >>
    /\ promises = << >>
    /\ nUpdates = 1
    /\ installed.kind = "update"
    /\ installed.timestamp = now
    /\ installed.expires_in > 60
    /\ tokenCache.refresh_token = "R1"
    /\ callers = << Returned(NoPromise, "A1") >>

(***************************************************************************)
(* C13.  As claimed: when GET /callback has completed a successful         *)
(* exchange, the cache holds the exchanged access token, refresh token and *)
(* expiry, and a call that arrives right after it returns the exchanged    *)
(* access token.                                                           *)
(***************************************************************************)
ExchangeCompleted(k) ==
    /\ logins[k].pc = "writing"
    /\ logins'[k] = Redirected(aboutLocation, logins[k].doc)
C13_Step ==
    /\ \A k \in 1..Len(logins) :
          ExchangeCompleted(k) =>
              /\ tokenCache'.access_token = logins[k].doc.access_token
              /\ tokenCache'.refresh_token = logins[k].doc.refresh_token
              /\ TruthyNum(tokenCache'.expires_at)
    /\ Arrival /\ callers = << >> /\ Len(logins) = 1 /\ logins[1].pc = "redirected"
               /\ logins[1].doc /= NoRecord /\ logins[1].doc.timestamp = now =>
          callers'[1].result = logins[1].doc.access_token
\* C13 as claimed: a completed exchange leaves its tokens in the cache, and the next call returns the exchanged access token.
C13_ExchangeSeedsCache == [][C13_Step]_vars

(***************************************************************************)
(* C14.  When the findOne() of initializeTokenCache resolves with a        *)
(* document holding non-empty access and refresh tokens and numeric        *)
(* expires_in and timestamp, the cache then holds the document's           *)
(* access_token and refresh_token, expires_at = timestamp + expires_in     *)
(* (in ms), no in-flight marker, and the call returns true.  (The other    *)
(* way out with such a document in the store is that the read fails.)      *)
(***************************************************************************)
WellFormed(doc) ==
    /\ doc /= NoRecord
    /\ Truthy(doc.access_token) /\ Truthy(doc.refresh_token)
    /\ doc.expires_in /= NaN /\ doc.timestamp /= NaN
InitEnds(i) == i \in 1..Len(inits') /\ inits[i] = "reading" /\ inits'[i] /= "reading"
C14_Step ==
    \A i \in 1..Len(inits) :
        InitEnds(i) /\ WellFormed(store) /\ inits'[i] /= "error" =>
            /\ inits'[i] = "loaded"
            /\ initResult(inits'[i]) = TRUE
            /\ tokenCache' =
                   [access_token |-> store.access_token,
                    refresh_token |-> store.refresh_token,
                    expires_at |-> store.timestamp + store.expires_in * MsPerSecond,
                    isRefreshing |-> FALSE,
                    refreshPromise |-> NoPromise]
\* C14: every initializeTokenCache call that reads a well-formed document loads it into the cache, clears the marker and returns true.
C14_LoadsStoredRecord == [][C14_Step]_vars
\* A document saved by an earlier update is loaded while a refresh is
\* outstanding.
C14_Witness ==
    /\ \E i \in 1..Len(inits) : inits[i] = "loaded"
    /\ installed.kind = "loaded"
    /\ installed.timestamp > 0
    /\ Pending /= {}
    /\ ~MarkerSet
    /\ tokenCache.access_token = store.access_token
    /\ tokenCache.refresh_token = store.refresh_token
    /\ tokenCache.expires_at = store.timestamp + store.expires_in * MsPerSecond

(***************************************************************************)
(* C15.  As claimed: when initializeTokenCache finds no document, or one   *)
(* that is malformed (an empty access token, an empty refresh token, a     *)
(* non-numeric expires_in or timestamp), it leaves the cache as it was     *)
(* (empty, at startup) and does not report success; and as long as no      *)
(* updateTokens call has supplied tokens, every call fails at once and     *)
(* sends no request to the token endpoint.                                 *)
(***************************************************************************)
C15_Step ==
    /\ \A i \in 1..Len(inits) :
          InitEnds(i) /\ ~WellFormed(store) =>
              /\ tokenCache' = tokenCache
              /\ ~initResult(inits'[i])
    /\ Arrival /\ ~WellFormed(store) /\ nUpdates = 0 =>
          /\ callers'[Arrived] = Returned(NoPromise, Null)
          /\ UNCHANGED <<tokenCache, promises>>
\* C15 as claimed: no document or a malformed one leaves the cache empty, and calls fail without a request until updateTokens supplies tokens.
C15_MalformedLeavesCacheEmpty == [][C15_Step]_vars

(***************************************************************************)
(* C16.  As claimed: initializeTokenCache reports an error when the read   *)
(* of the store fails, its caller can tell that outcome from 'no record    *)
(* found', and both leave the cache as it was.                             *)
(***************************************************************************)
C16_NothingLoaded_Step ==
    \A i \in 1..Len(inits) :
        InitEnds(i) /\ ~(recordUsable(store) /\ inits'[i] = "error"
                                              /\ tokenCache' /= tokenCache) =>
            /\ inits'[i] \in {"loaded", "no_tokens", "error"}
            /\ inits'[i] = "no_tokens" => ~recordUsable(store)
            /\ inits'[i] \in {"no_tokens", "error"} => tokenCache' = tokenCache
\* C16 as claimed: the outcomes 'read failed' and 'no record found' leave the cache alone and give the caller different results.
C16_ErrorDistinguished ==
    /\ [][C16_NothingLoaded_Step]_vars
    /\ [](\A i, j \in 1..Len(inits) :
            inits[i] = "error" /\ inits[j] = "no_tokens" =>
                initResult(inits[i]) /= initResult(inits[j]))

(***************************************************************************)
(* C17.  As claimed: the server has called initializeTokenCache, once,     *)
(* before its first request reaches getValidAccessToken(); so when the     *)
(* store holds at startup a well-formed document whose token outlives the  *)
(* buffer, the first request is served that token from the cache.          *)
(***************************************************************************)
C17_Step ==
    Arrival /\ callers = << >> /\ logins = << >> /\ WellFormed(store)
            /\ store.timestamp + store.expires_in * MsPerSecond > now + Buffer =>
        /\ Len(inits') = 1
        /\ inits'[1] = "loaded"
        /\ callers'[1] = Returned(NoPromise, store.access_token)
        /\ callers'[1].bearer = store.access_token
\* C17 as claimed: initializeTokenCache has run once before the first request, which is served the stored token from the cache.
C17_InitializedBeforeFirstRequest == [][C17_Step]_vars

(***************************************************************************)
(* C18.  The cache does not retry.  A request goes to the token endpoint   *)
(* only in the step in which a call arrives, one at most; a call never     *)
(* moves to another refresh and a returned call stays returned; and the    *)
(* step in which a refresh fails sends no request and gives null, not a    *)
(* token, to every call that awaited it.                                   *)
(***************************************************************************)
C18_Step ==
    /\ Len(promises') \in {Len(promises), Len(promises) + 1}
    /\ Len(promises') > Len(promises) => Arrival
    /\ \A c \in Callers :
          /\ callers[c].pc = "returned" => callers'[c] = callers[c]
          /\ callers'[c].promise = callers[c].promise
    /\ \A p \in 1..Len(promises) :
          Fails(p) =>
              /\ Len(promises') = Len(promises)
              /\ \A q \in 1..Len(promises) : q /= p => promises'[q] = promises[q]
              /\ \A c \in AwaitersOf(p) : callers'[c] = Returned(p, Null)
\* C18: every step keeps to C18_Step: one request per call at most, and a failed refresh is handed to its awaiters as null with no retry.
C18_NoRetry == [][C18_Step]_vars
\* Two calls shared one refresh, it failed, both got null, and no second
\* request was sent although the cache could still be refreshed.
C18_Witness ==
    /\ Len(promises) = 1
    /\ promises[1].state = "settled"
    /\ Len(callers) >= 2
    /\ \A c \in Callers : callers[c] = Returned(1, Null)
    /\ Truthy(tokenCache.access_token)
    /\ Truthy(tokenCache.refresh_token)
    /\ Stale
    /\ ~MarkerSet

(***************************************************************************)
(* C19.  For every request to /currently-playing or /recently-played: as   *)
(* long as its getValidAccessToken() call has not returned, the middleware *)
(* has neither answered nor called next() and no request went to the data  *)
(* API; when the call returned no token, the middleware answered 401,      *)
(* did not call next(), and no request went to the data API; when it       *)
(* returned a token, the middleware attached that token to the request,    *)
(* called next() once, and the handler's request to the data API carries   *)
(* that token.                                                             *)
(***************************************************************************)
\* C19: the data API is asked only with the token the middleware obtained; without one the answer is 401 and next() is not called.
C19_TokenBeforeDataRequest ==
    \A c \in Callers :
        /\ callers[c].pc = "awaiting" =>
               /\ callers[c].status = NoStatus
               /\ callers[c].next = 0
               /\ callers[c].bearer = Null
        /\ callers[c].pc = "returned" /\ ~Truthy(callers[c].result) =>
               /\ callers[c].status = Unauthorized
               /\ callers[c].next = 0
               /\ callers[c].bearer = Null
        /\ callers[c].pc = "returned" /\ Truthy(callers[c].result) =>
               /\ callers[c].status = NoStatus
               /\ callers[c].next = 1
               /\ callers[c].spotifyAccessToken = callers[c].result
               /\ callers[c].bearer = callers[c].result
\* One request was refused, one was passed on with the cached token, and one
\* is waiting for a refresh.
C19_Witness ==
    /\ \E c \in Callers : callers[c].status = Unauthorized /\ callers[c].next = 0
    /\ \E c \in Callers : callers[c].next = 1 /\ Truthy(callers[c].bearer)
    /\ \E c \in Callers : callers[c].pc = "awaiting"

(***************************************************************************)
(* C20.  As claimed: the store holds the document saved by an updateTokens *)
(* call that left a refresh token in the cache, the process has been       *)
(* started again, and initializeTokenCache reads that document: the cache  *)
(* then has the access_token, the refresh_token and the expires_at it had  *)
(* right after that updateTokens call.                                     *)
(***************************************************************************)
C20_Step ==
    \A i \in 1..Len(inits) :
        InitEnds(i) /\ inits'[i] = "loaded" /\ spent > 0
                    /\ Truthy(mirrored.access_token) /\ Truthy(mirrored.refresh_token) =>
            /\ tokenCache'.access_token = mirrored.access_token
            /\ tokenCache'.refresh_token = mirrored.refresh_token
            /\ tokenCache'.expires_at = mirrored.expires_at
\* C20 as claimed: the cache reloaded after a restart equals the cache right after the update that saved the stored document.
C20_ReloadEqualsUpdate == [][C20_Step]_vars

(***************************************************************************)
(* C21.  As claimed: whatever getValidAccessToken(), updateTokens() and    *)
(* initializeTokenCache() calls are interleaved, the token endpoint has at *)
(* most one refresh request that it has not answered.  Lines 69-70 and     *)
(* 30-36 clear isRefreshing and refreshPromise while the request of line   *)
(* 128 is unanswered; the test of line 99 then lets a second one out.      *)
(***************************************************************************)
\* The refresh requests sent (line 128) and not answered yet.
Outstanding == {p \in 1..Len(promises) : promises[p].state = "fetch"}
\* C21 as claimed: at most one upstream refresh request is outstanding in every reachable state.
C21_OneRequestOutstanding == Cardinality(Outstanding) <= 1

(***************************************************************************)
(* C22.  As claimed: updateTokens was called (from outside, or by a        *)
(* refresh at line 135) and nothing else wrote the cache; every            *)
(* findOneAndUpdate of line 83 has completed and none was rejected: the    *)
(* stored document then has the access_token and the refresh_token of the  *)
(* cache.  The calls of line 83 are not awaited and not ordered among      *)
(* themselves, so an earlier one may complete last.                        *)
(***************************************************************************)
\* Every save that was started has completed, and none was rejected.
AllSavesCompleted == writes = {} /\ failedSaves = {}
\* The cache was written by updateTokens calls only.
OnlyUpdatesWroteCache == installed.kind \in {"update", "refresh"} /\ inits = << >>
\* C22 as claimed: once all saves have completed, the stored document has the tokens of the cache.
C22_MirrorConverges ==
    AllSavesCompleted /\ OnlyUpdatesWroteCache =>
        /\ store.access_token = tokenCache.access_token
        /\ store.refresh_token = tokenCache.refresh_token

(***************************************************************************)
(* The sticky notes of src/index.js: the server that keeps them in the     *)
(* Note collection (lines 97-158) and the older one that keeps them in     *)
(* notes.json (lines 395-500).  GET /api/notes changes nothing and is not  *)
(* a step.                                                                 *)
(***************************************************************************)
Ok == 200
Created == 201
BadRequest == 400
NotFound == 404
ServerError == 500

\* req.body.text and req.body.deleteSecret: a field the body lacks, or a string.
NoteTexts == {Undefined, "hi"}
ReceivedSecrets == {Undefined, "s3cret"}
\* DELETE_SECRET: not set, or set.
SecretSettings == {Undefined, "s3cret"}
\* Whether readFileSync succeeds.
FileReads == BOOLEAN
\* How writeFileSync ends.  It opens the file for writing, which empties it,
\* and then writes the text: it succeeds, or fails at the opening and leaves
\* the file as it was, or fails at the writing and leaves a text cut short.
FileWrites == {"written", "refused", "cut"}

\* Lines 395-408: the array the file holds; the empty array when the file
\* cannot be read or parsed.
readNotes(file, readable) == IF readable /\ file.isArray THEN file.notes ELSE << >>

\* Lines 410-419: the file after writeNotes(notes); a failure is logged and
\* not reported.
writeNotes(file, notes, outcome) ==
    CASE outcome = "written" -> JsonArray(notes)
      [] outcome = "refused" -> file
      [] outcome = "cut" -> CutShort

\* Lines 138 and 485:  !DELETE_SECRET || receivedSecret !== DELETE_SECRET.
deleteRefused(secret, receivedSecret) ==
    ~Truthy(secret) \/ receivedSecret /= secret

\* parseInt(string, 10) on a string given as its UTF-16 code units: leading
\* white space is skipped, a sign is read, then the longest run of decimal
\* digits; NaN when there is no digit.  WhiteSpace holds the white space and
\* the line terminators of ECMAScript: tab, line feed, vertical tab, form
\* feed, carriage return, space, no-break space, U+1680, U+2000 to U+200A,
\* U+2028, U+2029, U+202F, U+205F, U+3000 and the byte order mark.
WhiteSpace ==
    {9, 10, 11, 12, 13, 32, 160, 5760, 8232, 8233, 8239, 8287, 12288, 65279}
    \cup (8192..8202)
IsDigit(c) == c \in 48..57
DigitValue(c) == c - 48
RECURSIVE parseDigits(_, _, _)
parseDigits(chars, i, acc) ==
    IF i > Len(chars) \/ ~IsDigit(chars[i])
    THEN acc
    ELSE parseDigits(chars, i + 1, acc * 10 + DigitValue(chars[i]))
RECURSIVE parseInt(_)
parseInt(chars) ==
    IF chars = << >> THEN NaN
    ELSE IF chars[1] \in WhiteSpace THEN parseInt(Tail(chars))
    ELSE LET negative == chars[1] = 45
             digits == IF chars[1] \in {45, 43} THEN Tail(chars) ELSE chars
         IN  IF digits = << >> \/ ~IsDigit(digits[1]) THEN NaN
             ELSE IF negative THEN 0 - parseDigits(digits, 1, 0)
             ELSE parseDigits(digits, 1, 0)

\* The decimal digits of a number, as a URL carries it.
RECURSIVE decimal(_)
decimal(n) ==
    IF n < 10 THEN <<48 + n>> ELSE decimal(n \div 10) \o <<48 + (n % 10)>>

\* req.params.id of the file server: the id of a note, an id followed by
\* other characters (120 is x), an id after white space (a %09 or a %0B of
\* the URL, decoded), and no number at all.
FileIdParams ==
    {decimal(0), decimal(TickMs), decimal(0) \o <<120>>, <<9>> \o decimal(TickMs),
     <<11>> \o decimal(0), <<120>>}
\* req.params.id of the database server: the ObjectId of a note, or a string
\* that is no ObjectId.
NotAnObjectId == 0
DbIdParams == {NotAnObjectId, 1, 2}

\* The handler records: kind is the server and the method, id the _id of a
\* database request, secret what a DELETE carried.
NoId == -1
Answered(kind, secret, status) ==
    [kind |-> kind, id |-> NoId, secret |-> secret, pc |-> "answered", status |-> status]
AwaitingDb(kind, id, secret) ==
    [kind |-> kind, id |-> id, secret |-> secret, pc |-> "awaiting", status |-> NoStatus]

\* The token-cache variables: the notes handlers touch none of them.
tokenVars == <<tokenCache, now, promises, callers, store, writes, failedSaves, inits,
               nUpdates, installed, mirrored, logins, spent>>

\* Lines 453-475 (file server): POST /api/notes.  The note is added to what
\* readNotes gave and the array is written; the answer is 201 however
\* writeNotes ends.
postNoteFile(text, readable, outcome) ==
    /\ Events < MaxEvents
    /\ IF ~Truthy(text)
       THEN /\ noteRequests' = Append(noteRequests, Answered("file.post", Undefined, BadRequest))
            /\ UNCHANGED notesFile
       ELSE /\ noteRequests' = Append(noteRequests, Answered("file.post", Undefined, Created))
            /\ notesFile' = writeNotes(notesFile,
                                       Append(readNotes(notesFile, readable),
                                              [id |-> now, text |-> text]),
                                       outcome)
    /\ UNCHANGED <<tokenVars, DELETE_SECRET, MONGODB_URI, FRONTEND_URI, noteDocs, cachedDb,
                   connects, storedRefreshes>>

\* Line 492: notes.filter(note => note.id !== noteId).
withoutId(notes, noteId) == SelectSeq(notes, LAMBDA note : note.id /= noteId)

\* Lines 478-500 (file server): DELETE /api/notes/:id.
deleteNoteFile(param, receivedSecret, readable, outcome) ==
    LET noteId == parseInt(param)
        notes == readNotes(notesFile, readable)
        updatedNotes == withoutId(notes, noteId)
    IN  /\ Events < MaxEvents
        /\ IF deleteRefused(DELETE_SECRET, receivedSecret)
           THEN /\ noteRequests' = Append(noteRequests,
                       Answered("file.delete", receivedSecret, Unauthorized))
                /\ UNCHANGED notesFile
           ELSE IF Len(updatedNotes) < Len(notes)
           THEN /\ noteRequests' = Append(noteRequests, Answered("file.delete", receivedSecret, Ok))
                /\ notesFile' = writeNotes(notesFile, updatedNotes, outcome)
           ELSE /\ noteRequests' = Append(noteRequests,
                       Answered("file.delete", receivedSecret, NotFound))
                /\ UNCHANGED notesFile
        /\ UNCHANGED <<tokenVars, DELETE_SECRET, MONGODB_URI, FRONTEND_URI, noteDocs, cachedDb,
                       connects, storedRefreshes>>

\* Lines 109-120 (database server): POST /api/notes up to the awaited save.
\* new Note(...) draws a fresh ObjectId.
postNote(text) ==
    /\ Events < MaxEvents
    /\ noteRequests' = Append(noteRequests,
           IF ~Truthy(text)
           THEN Answered("db.post", Undefined, BadRequest)
           ELSE AwaitingDb("db.post", spent + Len(noteRequests) + 1, Undefined))
    /\ UNCHANGED <<tokenVars, DELETE_SECRET, MONGODB_URI, FRONTEND_URI, noteDocs, notesFile, cachedDb, connects, storedRefreshes>>

\* Lines 120-126: save() completes, or is rejected.
saveEnds(k, saved) ==
    /\ noteRequests[k].kind = "db.post" /\ noteRequests[k].pc = "awaiting"
    /\ noteDocs' = IF saved THEN noteDocs \cup {[_id |-> noteRequests[k].id, text |-> "hi"]}
                   ELSE noteDocs
    /\ noteRequests' = [noteRequests EXCEPT ![k] =
           Answered("db.post", Undefined, IF saved THEN Created ELSE ServerError)]
    /\ UNCHANGED <<tokenVars, DELETE_SECRET, MONGODB_URI, FRONTEND_URI, notesFile, cachedDb, connects, storedRefreshes>>

\* Lines 130-145 (database server): DELETE /api/notes/:id up to the awaited
\* findByIdAndDelete.
deleteNote(noteId, receivedSecret) ==
    /\ Events < MaxEvents
    /\ noteRequests' = Append(noteRequests,
           IF deleteRefused(DELETE_SECRET, receivedSecret)
           THEN Answered("db.delete", receivedSecret, Unauthorized)
           ELSE AwaitingDb("db.delete", noteId, receivedSecret))
    /\ UNCHANGED <<tokenVars, DELETE_SECRET, MONGODB_URI, FRONTEND_URI, noteDocs, notesFile, cachedDb, connects, storedRefreshes>>

\* Lines 145-157: findByIdAndDelete resolves with the deleted document or
\* with null, or is rejected (an id that is no ObjectId, or a database error).
findByIdAndDeleteEnds(k, rejected) ==
    LET found == {doc \in noteDocs : doc._id = noteRequests[k].id}
    IN  /\ noteRequests[k].kind = "db.delete" /\ noteRequests[k].pc = "awaiting"
        /\ IF rejected \/ noteRequests[k].id = NotAnObjectId
           THEN /\ noteRequests' = [noteRequests EXCEPT ![k] =
                      Answered("db.delete", noteRequests[k].secret, ServerError)]
                /\ UNCHANGED noteDocs
           ELSE /\ noteRequests' = [noteRequests EXCEPT ![k] =
                      Answered("db.delete", noteRequests[k].secret,
                               IF found /= {} THEN Ok ELSE NotFound)]
                /\ noteDocs' = noteDocs \ found
        /\ UNCHANGED <<tokenVars, DELETE_SECRET, MONGODB_URI, FRONTEND_URI, notesFile, cachedDb, connects, storedRefreshes>>

\* Both notes servers, started with any setting of DELETE_SECRET and no note.
InitNotes ==
    /\ tokenCache = EmptyCache
    /\ now = 0
    /\ promises = << >>
    /\ callers = << >>
    /\ store = NoRecord
    /\ writes = {}
    /\ failedSaves = {}
    /\ inits = << >>
    /\ nUpdates = 0
    /\ installed = NothingInstalled
    /\ mirrored = Fields(EmptyCache)
    /\ logins = << >>
    /\ spent = 0
    /\ DELETE_SECRET \in SecretSettings
    /\ MONGODB_URI = "mongodb://db"
    /\ FRONTEND_URI = Undefined
    /\ noteDocs = {}
    /\ notesFile = JsonArray(<< >>)
    /\ noteRequests = << >>
    /\ cachedDb = NoConnection
    /\ connects = << >>
    /\ storedRefreshes = << >>

NextNotes ==
    \/ \E text \in NoteTexts, readable \in FileReads, outcome \in FileWrites :
          postNoteFile(text, readable, outcome)
    \/ \E param \in FileIdParams, receivedSecret \in ReceivedSecrets, readable \in FileReads,
          outcome \in FileWrites :
          deleteNoteFile(param, receivedSecret, readable, outcome)
    \/ \E text \in NoteTexts : postNote(text)
    \/ \E k \in 1..Len(noteRequests) : \E saved \in BOOLEAN : saveEnds(k, saved)
    \/ \E noteId \in DbIdParams, receivedSecret \in ReceivedSecrets : deleteNote(noteId, receivedSecret)
    \/ \E k \in 1..Len(noteRequests) : \E rejected \in BOOLEAN : findByIdAndDeleteEnds(k, rejected)
    \/ Tick

SpecNotes == InitNotes /\ [][NextNotes]_vars

\* The request that arrives in this step, if one does.
NoteArrives == Len(noteRequests') = Len(noteRequests) + 1
ArrivedNote == noteRequests'[Len(noteRequests')]
IsDelete(r) == r.kind \in {"db.delete", "file.delete"}
\* What the claim asks of a DELETE that may remove a note.
CarriesConfiguredSecret(r) == DELETE_SECRET /= Undefined /\ r.secret = DELETE_SECRET
\* A note of the collection, or of the file, is gone after the step.
DocRemoved == \E doc \in noteDocs : doc \notin noteDocs'
FileNoteRemoved ==
    \E i \in 1..Len(readNotes(notesFile, TRUE)) :
        \A j \in 1..Len(readNotes(notesFile', TRUE)) :
            readNotes(notesFile', TRUE)[j] /= readNotes(notesFile, TRUE)[i]

(***************************************************************************)
(* C23.  As claimed, in both servers: a DELETE /api/notes/:id that does    *)
(* not carry the configured secret (DELETE_SECRET unset, or another         *)
(* deleteSecret) is answered 401 by the step that receives it, which       *)
(* starts no database call and leaves the collection and the file as they  *)
(* were; and a step that removes a note belongs to a DELETE carrying the    *)
(* configured secret.  In the file server a POST /api/notes, which carries *)
(* no secret, removes the stored notes when readNotes or writeNotes fails. *)
(***************************************************************************)
C23_Step ==
    /\ NoteArrives /\ IsDelete(ArrivedNote) /\ ~CarriesConfiguredSecret(ArrivedNote) =>
           /\ ArrivedNote.pc = "answered"
           /\ ArrivedNote.status = Unauthorized
           /\ noteDocs' = noteDocs
           /\ notesFile' = notesFile
    /\ FileNoteRemoved =>
           /\ NoteArrives
           /\ ArrivedNote.kind = "file.delete"
           /\ CarriesConfiguredSecret(ArrivedNote)
           /\ ArrivedNote.status = Ok
    /\ DocRemoved =>
           \E k \in 1..Len(noteRequests) :
               /\ noteRequests[k].kind = "db.delete" /\ noteRequests[k].pc = "awaiting"
               /\ noteRequests'[k].pc = "answered" /\ noteRequests'[k].status = Ok
               /\ CarriesConfiguredSecret(noteRequests[k])
\* C23 as claimed: a DELETE without the configured secret is answered 401 and changes no note; only a DELETE with it removes one.
C23_DeleteNeedsSecret ==
    /\ [][C23_Step]_vars
    /\ [](\A k \in 1..Len(noteRequests) :
             IsDelete(noteRequests[k]) /\ noteRequests[k].pc = "awaiting" =>
                 CarriesConfiguredSecret(noteRequests[k]))

(***************************************************************************)
(* C24.  As claimed, for the file server: whatever POST and DELETE         *)
(* requests were handled, the notes of notes.json have pairwise distinct   *)
(* ids (so that the filter of line 492 drops at most one note).  The id is *)
(* Date.now() (line 466): two POST requests handled within one millisecond *)
(* get the same id.                                                        *)
(***************************************************************************)
\* C24 as claimed: the notes stored in notes.json have pairwise distinct ids.
C24_UniqueIds ==
    \A i, j \in 1..Len(notesFile.notes) :
        i /= j => notesFile.notes[i].id /= notesFile.notes[j].id

(***************************************************************************)
(* connectToDatabase (src/index.js lines 691-720).  mongoose.connect       *)
(* resolves every call to the one Mongoose instance of the process, and    *)
(* that instance has one default connection: a call made while the         *)
(* connection is disconnected opens it, a call made with the same URI      *)
(* while it is connecting or connected joins it and opens nothing.         *)
(***************************************************************************)
UriSettings == {Undefined, "mongodb://db"}

\* What mongoose.connect resolves to (line 703).
Mongoose == 1

\* The calls whose mongoose.connect opened the connection: the one that is
\* still opening it or has opened it, and the ones that failed to.
Openers(calls) == {j \in 1..Len(calls) : calls[j].via = "connect" /\ calls[j].opened}
\* mongoose's connection is connecting or connected: a call of line 703 has
\* opened it and has not failed.
Active(calls) == \E j \in Openers(calls) : calls[j].pc /= "threw"
\* The call that opened the connection which call k joined.
OpenerOf(calls, k) ==
    IF calls[k].opened THEN k
    ELSE CHOOSE j \in Openers(calls) : j < k /\ \A i \in Openers(calls) : i < k => i <= j

\* The calls of connectToDatabase that established a connection: their
\* mongoose.connect opened it and they returned.
Established == {k \in Openers(connects) : connects[k].pc = "returned"}

\* Lines 691-703: the call, up to its return, its throw, or the awaited
\* mongoose.connect.
connectToDatabase ==
    /\ Events < MaxEvents
    /\ connects' = Append(connects,
           IF cachedDb /= NoConnection
           THEN [pc |-> "returned", connection |-> cachedDb, via |-> "cache", opened |-> FALSE]
           ELSE IF ~Truthy(MONGODB_URI)
           THEN [pc |-> "threw", connection |-> NoConnection, via |-> "none", opened |-> FALSE]
           ELSE [pc |-> "connecting", connection |-> NoConnection, via |-> "connect",
                 opened |-> ~Active(connects)])
    /\ UNCHANGED <<tokenVars, DELETE_SECRET, MONGODB_URI, FRONTEND_URI, noteDocs, notesFile, noteRequests,
                   cachedDb, storedRefreshes>>

\* Lines 703-714: mongoose.connect resolves; what it resolved to is cached
\* and returned.  A call that joined a connection resolves while that
\* connection has not failed.
mongooseConnectResolves(k) ==
    /\ connects[k].pc = "connecting"
    /\ connects[OpenerOf(connects, k)].pc /= "threw"
    /\ cachedDb' = Mongoose
    /\ connects' = [connects EXCEPT ![k] =
           [pc |-> "returned", connection |-> cachedDb', via |-> "connect",
            opened |-> connects[k].opened]]
    /\ UNCHANGED <<tokenVars, DELETE_SECRET, MONGODB_URI, FRONTEND_URI, noteDocs, notesFile, noteRequests,
                   storedRefreshes>>

\* A variant of lines 716-719 that caches what the failed call was opening.
cachedAfterFailure_cachesAttempt(cached) == Mongoose
\* Lines 716-719: cachedDb after the catch block, which logs the error and
\* throws it again.
cachedAfterFailure(cached) == cached

\* Lines 716-719: mongoose.connect rejects; the error is logged and thrown
\* again.  A call that joined a connection fails when that connection has.
mongooseConnectRejects(k) ==
    /\ connects[k].pc = "connecting"
    /\ connects[k].opened \/ connects[OpenerOf(connects, k)].pc = "threw"
    /\ cachedDb' = cachedAfterFailure(cachedDb)
    /\ connects' = [connects EXCEPT ![k] =
           [pc |-> "threw", connection |-> NoConnection, via |-> "connect",
            opened |-> connects[k].opened]]
    /\ UNCHANGED <<tokenVars, DELETE_SECRET, MONGODB_URI, FRONTEND_URI, noteDocs, notesFile, noteRequests,
                   storedRefreshes>>

\* A process that calls connectToDatabase, with MONGODB_URI set or not.
InitConnect ==
    /\ tokenCache = EmptyCache
    /\ now = 0
    /\ promises = << >>
    /\ callers = << >>
    /\ store = NoRecord
    /\ writes = {}
    /\ failedSaves = {}
    /\ inits = << >>
    /\ nUpdates = 0
    /\ installed = NothingInstalled
    /\ mirrored = Fields(EmptyCache)
    /\ logins = << >>
    /\ spent = 0
    /\ DELETE_SECRET = "s3cret"
    /\ MONGODB_URI \in UriSettings
    /\ FRONTEND_URI = Undefined
    /\ noteDocs = {}
    /\ notesFile = JsonArray(<< >>)
    /\ noteRequests = << >>
    /\ cachedDb = NoConnection
    /\ connects = << >>
    /\ storedRefreshes = << >>

NextConnect ==
    \/ connectToDatabase
    \/ \E k \in 1..Len(connects) : mongooseConnectResolves(k)
    \/ \E k \in 1..Len(connects) : mongooseConnectRejects(k)

SpecConnect == InitConnect /\ [][NextConnect]_vars

(***************************************************************************)
(* C25.  As long as no call has thrown, at most one call has established   *)
(* a connection, also when calls overlap, and every call that returned has *)
(* returned the same connection; a call that throws leaves cachedDb as it  *)
(* was.  The test of line 692 sees cachedDb only, which is set when        *)
(* mongoose.connect has resolved (line 713): a call made before that calls *)
(* mongoose.connect again, which joins the connection being opened.        *)
(***************************************************************************)
NoConnectFailed == \A k \in 1..Len(connects) : connects[k].pc /= "threw"
C25_Step ==
    \A k \in 1..Len(connects) :
        connects'[k].pc = "threw" /\ connects[k].pc /= "threw" => cachedDb' = cachedDb
PromiseOf(doc) == [isPromise |-> TRUE, doc |-> doc]
Awaited(promise, rejected) ==
    [isPromise |-> FALSE, doc |-> IF rejected THEN NoRecord ELSE promise.doc]
\* Lines 40-55, as called: the promise of the stored document (or of null).
readSpotifyTokens == PromiseOf(store)
\* value.name, and the fields  ...value  spreads.  Reading a property of
\* null throws a TypeError; spreading null spreads nothing.
TypeError == "<TypeError>"
propertyOf(value, name) ==
    IF value.isPromise THEN Undefined
    ELSE IF value.doc = NoRecord THEN TypeError
    ELSE value.doc[name]
spreadOf(value) ==
    IF value.isPromise \/ value.doc = NoRecord
    THEN [access_token |-> Undefined, refresh_token |-> Undefined,
          expires_in |-> NaN, timestamp |-> NaN]
    ELSE value.doc

\* Lines 271-283: the document handed to writeSpotifyTokens.
updatedTokens(currentTokens, data, t) ==
    [spreadOf(currentTokens) EXCEPT
        !.access_token = data.access_token,
        !.expires_in = data.expires_in,
        !.timestamp = t,
        !.refresh_token = IF Truthy(data.refresh_token) THEN data.refresh_token ELSE @]

\* findOneAndUpdate({}, tokens, {upsert: true}): the fields the update
\* carries are set, the others stay as stored.
findOneAndUpdate(stored, tokens) ==
    [access_token |-> IF tokens.access_token = Undefined THEN stored.access_token
                      ELSE tokens.access_token,
     refresh_token |-> IF tokens.refresh_token = Undefined THEN stored.refresh_token
                       ELSE tokens.refresh_token,
     expires_in |-> IF tokens.expires_in = NaN THEN stored.expires_in ELSE tokens.expires_in,
     timestamp |-> IF tokens.timestamp = NaN THEN stored.timestamp ELSE tokens.timestamp]

\* A call: what was stored when it was made, the refresh token it sent
\* upstream, its result, and the document it handed to writeSpotifyTokens.
StoredRefresh(pc, stored, sent, result, wrote) ==
    [pc |-> pc, stored |-> stored, sent |-> sent, result |-> result, wrote |-> wrote]

\* Lines 242-265: the call, up to its return or the awaited fetch.
refreshStoredAccessToken ==
    LET tokens == readSpotifyTokens
        refresh_token == propertyOf(tokens, "refresh_token")
    IN  /\ Events < MaxEvents
        /\ storedRefreshes' = Append(storedRefreshes,
               IF ~Truthy(refresh_token)
               THEN StoredRefresh("returned", store.refresh_token, Null, Null, NoRecord)
               ELSE StoredRefresh("fetch", store.refresh_token, refresh_token, Null, NoRecord))
        /\ UNCHANGED <<tokenVars, DELETE_SECRET, MONGODB_URI, FRONTEND_URI, noteDocs, notesFile, noteRequests,
                       cachedDb, connects>>

\* Lines 265-297: the token endpoint answers.  writeSpotifyTokens is called
\* and not awaited (line 286).
storedRefreshResumes(k, data) ==
    /\ storedRefreshes[k].pc = "fetch"
    /\ storedRefreshes' = [storedRefreshes EXCEPT ![k] =
           IF data.kind = "ok"
           THEN StoredRefresh("writing", @.stored, @.sent, data.access_token,
                              updatedTokens(readSpotifyTokens, data, now))
           ELSE StoredRefresh("returned", @.stored, @.sent, Null, NoRecord)]
    /\ UNCHANGED <<tokenVars, DELETE_SECRET, MONGODB_URI, FRONTEND_URI, noteDocs, notesFile, noteRequests,
                   cachedDb, connects>>

\* Lines 57-66: the write of line 286 completes, or fails and is logged.
storedWriteEnds(k, written) ==
    /\ storedRefreshes[k].pc = "writing"
    /\ store' = IF written THEN findOneAndUpdate(store, storedRefreshes[k].wrote) ELSE store
    /\ storedRefreshes' = [storedRefreshes EXCEPT ![k].pc = "returned"]
    /\ UNCHANGED <<tokenCache, now, promises, callers, writes, failedSaves, inits, nUpdates,
                   installed, mirrored, logins, spent, DELETE_SECRET, MONGODB_URI, FRONTEND_URI, noteDocs,
                   notesFile, noteRequests, cachedDb, connects>>

\* The server with calls of the helper.  No call gets as far as the fetch
\* (StoredRefreshNeverSends), so the steps that follow it are never enabled.
NextStored == CallbackStep \/ refreshStoredAccessToken \/ Tick
SpecStored == Init /\ [][NextStored]_vars
StoredRefreshNeverSends ==
    \A k \in 1..Len(storedRefreshes) :
        storedRefreshes[k].pc = "returned" /\ storedRefreshes[k].sent = Null

(***************************************************************************)
(* C26.  As claimed: a call made while the store holds a refresh token has *)
(* sent it upstream; a call that succeeded returned the new access token   *)
(* and handed to writeSpotifyTokens a document with the new refresh token, *)
(* or with the stored one when upstream supplied none; and a call returned *)
(* null without a request only when no refresh token was stored.           *)
(***************************************************************************)
\* C26 as claimed: refreshStoredAccessToken refreshes with the stored refresh token, and returns null unasked only when none is stored.
C26_RefreshesWithStoredToken ==
    \A k \in 1..Len(storedRefreshes) :
        LET call == storedRefreshes[k]
        IN  /\ Truthy(call.stored) => call.sent = call.stored
            /\ Truthy(call.result) =>
                   /\ Truthy(call.wrote.access_token) /\ call.wrote.access_token = call.result
                   /\ Truthy(call.wrote.refresh_token)
            /\ call.pc = "returned" /\ call.result = Null /\ call.sent = Null =>
                   ~Truthy(call.stored)

=============================================================================
